---- MODULE Spec2Model ----
(***************************************************************************)
(* The analysis pipeline of src/analyzer.py (FootballGameAnalyzer):        *)
(* compress_video with its monitor thread, _call_api_with_retry and        *)
(* analyze_game.  Each caller thread owns one analyzer instance and calls  *)
(* analyze_game on it, one call after the other; all callers share the     *)
(* disk.  A caller may also be a request to the /analyze handler of        *)
(* src/main.py (analyze_video), which saves the upload, makes an analyzer, *)
(* calls analyze_game once on the upload and answers.                      *)
(*                                                                         *)
(* Paths and messages are sequences of string chunks, so that an f-string  *)
(* is a concatenation.  Sizes are in half megabytes (9.5 MB is 19), which  *)
(* keeps max_size_mb * 1024 * 1024 * 8 an exact integer, as it is in the   *)
(* code's float arithmetic for such values; for integer durations the      *)
(* float quotient truncated by int() is then the integer quotient.         *)
(***************************************************************************)
EXTENDS Integers, Sequences, FiniteSets, TLC

\* ------------------------------------------------------------- bounds
NumCallers == 2
MaxCalls == 2
MaxAttempts == 3
MaxSizeHalfMb == 24
MaxDuration == 30
MaxAttemptIndex == 7
JitterSteps == 10

\* ---------------------------------------------------------- constants
\* self.max_size_mb = 9.5, in half megabytes
DefaultSizeHalfMb == 19
\* self.max_retries as __init__ sets it
DefaultMaxRetries == 1
\* self.base_retry_delay and self.max_retry_delay, in seconds
base_retry_delay == 5
max_retry_delay == 120
\* the 0.2 of line 55, in percent
JitterPercent == 20

Callers == 1..NumCallers
CallNumbers == 1..MaxCalls
VideoPaths == {<<"a.mp4">>, <<"b.mp4">>}
\* what ffprobe prints for the source, in seconds
SourceDurations == {0, 60, 840}
\* str(e) of a transport exception
ErrorMessages == {"timeout", "rate limited"}
\* response.choices: one choice holding the report, or none
Responses == {<<"report">>, <<>>}
\* psutil.cpu_percent
Samples == {0, 50}

VARIABLES
    files,            \* the disk: path -> file record
    max_size_mb,      \* self.max_size_mb, in half megabytes
    max_retries,      \* self.max_retries
    todo,             \* the calls of analyze_game each caller is to make
    ncalls,           \* the calls of analyze_game each caller has made
    stop_monitoring,  \* self.stop_monitoring of each caller's analyzer
    sys_stats,        \* self.sys_stats of each caller's analyzer (the number)
    pc,               \* where each caller's analyze_game call stands
    video_path,       \* its video_path argument
    bitrate,          \* the bitrate compress_video passes to ffmpeg
    returncode,       \* process.returncode
    ready_video,      \* what compress_video returned
    logged,           \* the ERROR lines compress_video logged
    video_base64,     \* the encoded artifact
    attempt,          \* the loop variable of _call_api_with_retry
    calls,            \* transport calls made
    sleeps,           \* time.sleep calls made
    raised,           \* str(e) of each transport exception, in order
    api_result,       \* what _call_api_with_retry returned
    result,           \* what analyze_game returned
    exc,              \* the exception that escaped analyze_game
    outcomes,         \* what the call found on disk and what each of its
                      \* collaborators did, in order (a history)
    monPc,            \* where the monitor thread started by each call stands
    calc,             \* the bitrate computation applied on its own
    backoff,          \* the retry delay computation applied on its own
    hpc,              \* where each caller's /analyze request stands, if it is one
    http,             \* the response to each request
    supabase,         \* the module's global supabase: a client, or never bound
    analyses          \* the rows of the table 'analyses'

cfgVars == <<max_size_mb, max_retries, todo, calc, backoff>>
compressVars == <<bitrate, returncode, ready_video, logged>>
apiVars == <<attempt, calls, sleeps, raised, api_result>>
ingressVars == <<hpc, http, supabase, analyses>>

vars == <<files, cfgVars, ncalls, stop_monitoring, sys_stats, pc, video_path,
          compressVars, video_base64, apiVars, result, exc, outcomes, monPc,
          ingressVars>>

\* A value not yet there is the empty tuple, a value v that is there is <<v>>.
Nil == <<>>
Some(v) == <<v>>
Val(o) == o[1]

\* Python's None as compress_video returns it: no path
NoPath == <<>>

\* Lines 36-37 of src/main.py: f"upload_{uuid.uuid4()}.mp4", one per request
UploadPath(i) == <<"upload_", ToString(i), ".mp4">>

\* The video_path arguments a caller may pass: the handler passes temp_path.
CallerPaths(i) ==
    CASE hpc[i] = "none" -> VideoPaths
      [] hpc[i] = "analyze" -> {UploadPath(i)}
      [] OTHER -> {}

\* ------------------------------------------------------ pure functions

\* f"{video_path}_compressed.mp4"
TempVideo(p) == p \o <<"_compressed.mp4">>

\* The quotient rounded up instead of truncated.
BitrateRoundedUp(half_mb, duration) ==
    ((half_mb * 1024 * 1024 * 8) + (2 * duration) - 1) \div (2 * duration)

\* Decimal megabytes instead of binary ones.
BitrateDecimalMb(half_mb, duration) ==
    (half_mb * 1000 * 1000 * 8) \div (2 * duration)

\* int((self.max_size_mb * 1024 * 1024 * 8) / duration)
Bitrate(half_mb, duration) == (half_mb * 1024 * 1024 * 8) \div (2 * duration)

Min(a, b) == IF a <= b THEN a ELSE b

\* The exponential delay without its cap.
BackoffUncapped(n) == base_retry_delay * (2 ^ n)

\* Line 54: min(self.base_retry_delay * (2 ** attempt), self.max_retry_delay)
Backoff(n) == Min(base_retry_delay * (2 ^ n), max_retry_delay)

\* Delays are counted in units of 1/(100 * JitterSteps) second, and the draw
\* r stands for random.random() = r / JitterSteps, which lies in [0, 1): in
\* these units delay * 0.2 * (random.random() * 2 - 1) is an exact integer.
DelayUnits == 100 * JitterSteps

\* Line 55: delay * 0.2 * (random.random() * 2 - 1)
Jitter(delay, r) == delay * JitterPercent * ((2 * r) - JitterSteps)

\* Lines 50-56: _calculate_retry_delay(attempt) under the draw r
calculate_retry_delay(n, r) == (Backoff(n) * DelayUnits) + Jitter(Backoff(n), r)

\* base64.b64encode(video_file.read()).decode("utf-8")
B64Encode(content) == <<"b64", content>>

SourceFile(d) == [kind |-> "source", duration |-> d]
Artifact(i, whole) == [kind |-> "artifact", writer |-> i, complete |-> whole]

\* os.remove, and a file written
Remove(fs, p) == [q \in (DOMAIN fs) \ {p} |-> fs[q]]
Put(fs, p, f) == [q \in (DOMAIN fs) \cup {p} |-> IF q = p THEN f ELSE fs[q]]

\* os.path.exists
Exists(fs, p) == p \in DOMAIN fs

\* The check inverted away: every path passes.
SourceMissingNever(fs, p) == FALSE

\* Line 170: not os.path.exists(video_path)
SourceMissing(fs, p) == ~Exists(fs, p)

\* The transcoding is also given up when the monitor's last sample is high.
FfmpegFailedOrBusy(rc) == rc # 0 \/ \E i \in Callers : sys_stats[i] > 0

\* Only a kill by signal counts as failure.
FfmpegFailedOnSignal(rc) == rc < 0

\* Line 110: process.returncode != 0
FfmpegFailed(rc) == rc # 0

\* The test inverted: the loop goes on once the transcoder has exited.
DrainDoneInverted(rc) == rc = Nil

\* Line 103: process.poll() is not None, at the end of the output
DrainDone(rc) == rc # Nil

\* The index of the attempt instead of its number.
AttemptsMadeZeroBased(n) == n

\* Lines 155 and 162: attempt + 1
AttemptsMade(n) == n + 1

\* One round too late: no attempt is the last.
IsLastAttemptOffByOne(n, retries) == n = retries

\* Line 161: attempt == self.max_retries - 1
IsLastAttempt(n, retries) == n = retries - 1

Failed(msg) == [status |-> "failed", error |-> msg]
Success(content) == [status |-> "success", analysis |-> content]

\* The failure of the stage before, with the detail dropped.
EncodingFailedAsCompression(detail) == Failed(<<"Compression failed">>)

\* Line 185: {"status": "failed", "error": f"Encoding failed: {str(e)}"}
EncodingFailed(detail) == Failed(<<"Encoding failed: ", detail>>)

CallSuccess(response, n) == [success |-> TRUE, response |-> response, attempts |-> n]
CallFailure(error, n) == [success |-> FALSE, error |-> error, attempts |-> n]

\* An upload that was cut short while being written.
PartialUpload == [kind |-> "upload", complete |-> FALSE]

\* What the client gets: the returned dict, or an HTTPException's detail.
Response(code, content) == [status_code |-> code, content |-> content]

\* str(e) of a starlette HTTPException: f"{status_code}: {detail}"
StrOfHTTPException(code, detail) == <<ToString(code), ": ">> \o detail

\* ------------------------------------------------------------ initial

\* Nothing to compute: the formula is not applied on its own.
NoCalc == [half_mb |-> 0, duration |-> 0, bitrate |-> Nil]
NoBackoff == [attempt |-> 0, draw |-> 0, delay |-> Nil]

\* No web application: the callers call analyze_game themselves.
NoIngress ==
    /\ hpc = [i \in Callers |-> "none"]
    /\ http = [i \in Callers |-> Nil]
    /\ supabase = "unbound"
    /\ analyses = <<>>

\* No call made yet, and the locals of a call that has just begun.
InitCalls ==
    /\ ncalls = [i \in Callers |-> 0]
    /\ pc = [i \in Callers |-> "idle"]
    /\ video_path = [i \in Callers |-> <<>>]
    /\ bitrate = [i \in Callers |-> Nil]
    /\ returncode = [i \in Callers |-> Nil]
    /\ ready_video = [i \in Callers |-> NoPath]
    /\ logged = [i \in Callers |-> <<>>]
    /\ video_base64 = [i \in Callers |-> Nil]
    /\ attempt = [i \in Callers |-> 0]
    /\ calls = [i \in Callers |-> 0]
    /\ sleeps = [i \in Callers |-> 0]
    /\ raised = [i \in Callers |-> <<>>]
    /\ api_result = [i \in Callers |-> Nil]
    /\ result = [i \in Callers |-> Nil]
    /\ exc = [i \in Callers |-> "none"]
    /\ outcomes = [i \in Callers |-> <<>>]
    /\ monPc = [i \in Callers |-> [k \in CallNumbers |-> "none"]]

\* __init__ on each caller's analyzer
InitAnalyzers ==
    /\ stop_monitoring = [i \in Callers |-> FALSE]
    /\ sys_stats = [i \in Callers |-> 0]

\* One caller makes every call, one after the other, on its analyzer.  The
\* retry policy is the attribute max_retries, whatever it was set to: the
\* constructor's 1, a larger budget, or 0, the empty range of line 127.
Init ==
    /\ \E d \in SourceDurations : files = (<<"a.mp4">> :> SourceFile(d))
    /\ max_size_mb = DefaultSizeHalfMb
    /\ max_retries \in 0..MaxAttempts
    /\ todo = [i \in Callers |-> IF i = 1 THEN MaxCalls ELSE 0]
    /\ InitAnalyzers
    /\ InitCalls
    /\ calc = NoCalc
    /\ backoff = NoBackoff
    /\ NoIngress

\* --------------------------------------------------------- analyze_game

Return(i, r) ==
    /\ pc' = [pc EXCEPT ![i] = "returned"]
    /\ result' = [result EXCEPT ![i] = Some(r)]

Raise(i, e) ==
    /\ pc' = [pc EXCEPT ![i] = "raised"]
    /\ exc' = [exc EXCEPT ![i] = e]

\* A collaborator (ffprobe, Popen, ffmpeg, open and read, the transport) has
\* done o.
Observe(i, o) == outcomes' = [outcomes EXCEPT ![i] = Append(@, o)]

\* A call of analyze_game, with fresh locals, and lines 170-174.
Analyze(i) ==
    /\ pc[i] \in {"idle", "returned", "raised"}
    /\ ncalls[i] < todo[i]
    /\ ncalls' = [ncalls EXCEPT ![i] = @ + 1]
    /\ bitrate' = [bitrate EXCEPT ![i] = Nil]
    /\ returncode' = [returncode EXCEPT ![i] = Nil]
    /\ ready_video' = [ready_video EXCEPT ![i] = NoPath]
    /\ logged' = [logged EXCEPT ![i] = <<>>]
    /\ video_base64' = [video_base64 EXCEPT ![i] = Nil]
    /\ attempt' = [attempt EXCEPT ![i] = 0]
    /\ calls' = [calls EXCEPT ![i] = 0]
    /\ sleeps' = [sleeps EXCEPT ![i] = 0]
    /\ raised' = [raised EXCEPT ![i] = <<>>]
    /\ api_result' = [api_result EXCEPT ![i] = Nil]
    /\ exc' = [exc EXCEPT ![i] = "none"]
    /\ \E p \in CallerPaths(i) :
        /\ video_path' = [video_path EXCEPT ![i] = p]
        /\ outcomes' = [outcomes EXCEPT ![i] =
              << <<"disk",
                   IF Exists(files, p) THEN "source" ELSE "no source",
                   IF Exists(files, TempVideo(p)) THEN "artifact"
                                                  ELSE "no artifact">> >>]
        /\ IF SourceMissing(files, p)
             THEN Return(i, Failed(p \o <<" not found">>))
             ELSE /\ pc' = [pc EXCEPT ![i] = "probe"]
                  /\ result' = [result EXCEPT ![i] = Nil]
    /\ UNCHANGED <<files, cfgVars, stop_monitoring, sys_stats, monPc,
                   ingressVars>>

\* ------------------------------------------------------- compress_video

\* Lines 63-69 and 177-178: ffprobe fails, or prints no number.
ProbeFails(i) ==
    /\ pc[i] = "probe"
    /\ logged' = [logged EXCEPT ![i] = Append(@, "Error checking duration")]
    /\ Return(i, Failed(<<"Compression failed">>))
    /\ Observe(i, <<"probe", "failed">>)
    /\ UNCHANGED <<files, cfgVars, ncalls, stop_monitoring, sys_stats,
                   video_path, bitrate, returncode, ready_video, video_base64,
                   apiVars, exc, monPc, ingressVars>>

\* Lines 63-96: ffprobe prints the duration; the bitrate is computed (a zero
\* duration divides by zero, outside the try), the flag is cleared and the
\* monitor thread started.
ProbeOk(i) ==
    /\ pc[i] = "probe"
    /\ LET d == files[video_path[i]].duration IN
        IF d = 0
          THEN /\ Observe(i, <<"probe", "zero">>)
               /\ Raise(i, "ZeroDivisionError")
               /\ UNCHANGED <<bitrate, stop_monitoring, monPc>>
          ELSE /\ Observe(i, <<"probe", "positive">>)
               /\ bitrate' = [bitrate EXCEPT ![i] = Some(Bitrate(max_size_mb, d))]
               /\ stop_monitoring' = [stop_monitoring EXCEPT ![i] = FALSE]
               /\ monPc' = [monPc EXCEPT ![i][ncalls[i]] = "check"]
               /\ pc' = [pc EXCEPT ![i] = "popen"]
               /\ UNCHANGED exc
    /\ UNCHANGED <<files, cfgVars, ncalls, sys_stats, video_path, returncode,
                   ready_video, logged, video_base64, apiVars, result,
                   ingressVars>>

\* Line 98: subprocess.Popen raises (no ffmpeg to run, no process to fork).
PopenRaises(i) ==
    /\ pc[i] = "popen"
    /\ Raise(i, "OSError")
    /\ Observe(i, <<"popen", "raised">>)
    /\ UNCHANGED <<files, cfgVars, ncalls, stop_monitoring, sys_stats,
                   video_path, compressVars, video_base64, apiVars, result,
                   monPc, ingressVars>>

\* Line 98: the transcoder is running.
PopenOk(i) ==
    /\ pc[i] = "popen"
    /\ pc' = [pc EXCEPT ![i] = "drain"]
    /\ Observe(i, <<"popen", "ok">>)
    /\ UNCHANGED <<files, cfgVars, ncalls, stop_monitoring, sys_stats,
                   video_path, compressVars, video_base64, apiVars, result,
                   exc, monPc, ingressVars>>

\* Lines 101-104: reading the transcoder's output raises while it runs.
DrainRaises(i) ==
    /\ pc[i] = "drain"
    /\ Raise(i, "UnicodeDecodeError")
    /\ Observe(i, <<"drain", "raised">>)
    /\ UNCHANGED <<files, cfgVars, ncalls, stop_monitoring, sys_stats,
                   video_path, compressVars, video_base64, apiVars, result,
                   monPc, ingressVars>>

\* The transcoder: with -y it replaces the output file if it gets to write
\* one, whole when it exits 0 and partial otherwise; then it exits, and the
\* drain loop (lines 101-104) sees the end of its output.
TranscoderExit(i) ==
    /\ pc[i] = "drain"
    /\ \E rc \in {0, 1}, wrote \in BOOLEAN :
        /\ Observe(i, <<"exit", IF rc = 0 THEN "0" ELSE "1",
                         IF wrote THEN "output" ELSE "no output">>)
        /\ returncode' = [returncode EXCEPT ![i] = Some(rc)]
        /\ files' = IF wrote
                      THEN Put(files, TempVideo(video_path[i]), Artifact(i, rc = 0))
                      ELSE files
    /\ pc' = [pc EXCEPT ![i] = "wait"]
    /\ UNCHANGED <<cfgVars, ncalls, stop_monitoring, sys_stats, video_path,
                   bitrate, ready_video, logged, video_base64, apiVars, result,
                   exc, monPc, ingressVars>>

\* Lines 103-122 and 177-178: the drain loop ends, the flag is set, the exit
\* code is checked and then the output file; each failure logs its line and
\* returns None.
CompressFinish(i) ==
    /\ pc[i] = "wait"
    /\ DrainDone(returncode[i])
    /\ stop_monitoring' = [stop_monitoring EXCEPT ![i] = TRUE]
    /\ IF FfmpegFailed(Val(returncode[i]))
         THEN /\ logged' = [logged EXCEPT ![i] =
                                Append(@, "FFmpeg compression failed!")]
              /\ Return(i, Failed(<<"Compression failed">>))
              /\ UNCHANGED ready_video
         ELSE IF ~Exists(files, TempVideo(video_path[i]))
         THEN /\ logged' = [logged EXCEPT ![i] =
                                Append(@, "Output file was not created!")]
              /\ Return(i, Failed(<<"Compression failed">>))
              /\ UNCHANGED ready_video
         ELSE /\ ready_video' = [ready_video EXCEPT ![i] = TempVideo(video_path[i])]
              /\ pc' = [pc EXCEPT ![i] = "encode"]
              /\ UNCHANGED <<result, logged>>
    /\ UNCHANGED outcomes
    /\ UNCHANGED <<files, cfgVars, ncalls, sys_stats, video_path, bitrate,
                   returncode, video_base64, apiVars, exc, monPc,
                   ingressVars>>

\* ------------------------------------------- analyze_game, lines 180-185

\* Lines 181-185: open() or read() raises; it must when the file is gone.
EncodeFails(i) ==
    /\ pc[i] = "encode"
    /\ LET detail == IF Exists(files, ready_video[i])
                        THEN "Input/output error"
                        ELSE "No such file or directory"
       IN /\ Observe(i, <<"read", "failed", detail>>)
          /\ Return(i, EncodingFailed(detail))
    /\ UNCHANGED <<files, cfgVars, ncalls, stop_monitoring, sys_stats,
                   video_path, compressVars, video_base64, apiVars, exc, monPc,
                   ingressVars>>

\* Lines 181-183: the artifact is read and encoded.
EncodeOk(i) ==
    /\ pc[i] = "encode"
    /\ Exists(files, ready_video[i])
    /\ video_base64' = [video_base64 EXCEPT ![i] =
                            Some(B64Encode(files[ready_video[i]]))]
    /\ pc' = [pc EXCEPT ![i] = "api"]
    /\ Observe(i, <<"read", "ok">>)
    /\ UNCHANGED <<files, cfgVars, ncalls, stop_monitoring, sys_stats,
                   video_path, compressVars, apiVars, result, exc, monPc,
                   ingressVars>>

\* ------------------------------------------------- _call_api_with_retry

\* Lines 127-155: the transport returns on this attempt.
ApiReturns(i) ==
    /\ pc[i] = "api"
    /\ attempt[i] < max_retries
    /\ calls' = [calls EXCEPT ![i] = @ + 1]
    /\ \E response \in Responses :
        /\ Observe(i, <<"returned">> \o response)
        /\ api_result' = [api_result EXCEPT ![i] =
                            Some(CallSuccess(response, AttemptsMade(attempt[i])))]
    /\ pc' = [pc EXCEPT ![i] = "cleanup"]
    /\ UNCHANGED <<files, cfgVars, ncalls, stop_monitoring, sys_stats,
                   video_path, compressVars, video_base64, attempt, sleeps,
                   raised, result, exc, monPc, ingressVars>>

\* Lines 127-162: the transport raises on this attempt; the last attempt
\* returns the failure, any other goes on to sleep.
ApiRaises(i) ==
    /\ pc[i] = "api"
    /\ attempt[i] < max_retries
    /\ calls' = [calls EXCEPT ![i] = @ + 1]
    /\ \E error_str \in ErrorMessages :
        /\ Observe(i, <<"raised", error_str>>)
        /\ raised' = [raised EXCEPT ![i] = Append(@, error_str)]
        /\ IF IsLastAttempt(attempt[i], max_retries)
             THEN /\ api_result' = [api_result EXCEPT ![i] =
                        Some(CallFailure(error_str, AttemptsMade(attempt[i])))]
                  /\ pc' = [pc EXCEPT ![i] = "cleanup"]
             ELSE /\ pc' = [pc EXCEPT ![i] = "sleep"]
                  /\ UNCHANGED api_result
    /\ UNCHANGED <<files, cfgVars, ncalls, stop_monitoring, sys_stats,
                   video_path, compressVars, video_base64, attempt, sleeps,
                   result, exc, monPc, ingressVars>>

\* Line 164, and the loop's next round.
Sleep(i) ==
    /\ pc[i] = "sleep"
    /\ sleeps' = [sleeps EXCEPT ![i] = @ + 1]
    /\ attempt' = [attempt EXCEPT ![i] = @ + 1]
    /\ pc' = [pc EXCEPT ![i] = "api"]
    /\ UNCHANGED outcomes
    /\ UNCHANGED <<files, cfgVars, ncalls, stop_monitoring, sys_stats,
                   video_path, compressVars, video_base64, calls, raised,
                   api_result, result, exc, monPc, ingressVars>>

\* Line 166: the loop ran out (an empty range, or a last attempt missed).
ApiLoopEnd(i) ==
    /\ pc[i] = "api"
    /\ attempt[i] >= max_retries
    /\ api_result' = [api_result EXCEPT ![i] =
                        Some(CallFailure("Unknown error", max_retries))]
    /\ pc' = [pc EXCEPT ![i] = "cleanup"]
    /\ UNCHANGED outcomes
    /\ UNCHANGED <<files, cfgVars, ncalls, stop_monitoring, sys_stats,
                   video_path, compressVars, video_base64, attempt, calls,
                   sleeps, raised, result, exc, monPc, ingressVars>>

\* ------------------------------------------- analyze_game, lines 223-231

\* The artifact is removed if it is there, and the call's outcome mapped;
\* choices[0] of a response without choices raises.
Cleanup(i) ==
    /\ pc[i] = "cleanup"
    /\ files' = IF Exists(files, TempVideo(video_path[i]))
                  THEN Remove(files, TempVideo(video_path[i]))
                  ELSE files
    /\ IF Val(api_result[i]).success
         THEN IF Val(api_result[i]).response = <<>>
                THEN Raise(i, "IndexError") /\ UNCHANGED result
                ELSE Return(i, Success(Head(Val(api_result[i]).response)))
                     /\ UNCHANGED exc
         ELSE Return(i, Failed(<<Val(api_result[i]).error>>)) /\ UNCHANGED exc
    /\ UNCHANGED outcomes
    /\ UNCHANGED <<cfgVars, ncalls, stop_monitoring, sys_stats, video_path,
                   compressVars, video_base64, apiVars, monPc, ingressVars>>

\* ------------------------------------------------------ _monitor_system

\* Line 41: the loop test, by the monitor thread that call k started.
MonitorCheck(i, k) ==
    /\ monPc[i][k] = "check"
    /\ monPc' = [monPc EXCEPT ![i][k] =
                    IF stop_monitoring[i] THEN "exited" ELSE "sample"]
    /\ UNCHANGED outcomes
    /\ UNCHANGED <<files, cfgVars, ncalls, stop_monitoring, sys_stats, pc,
                   video_path, compressVars, video_base64, apiVars, result, exc,
                   ingressVars>>

\* Lines 42-43: half a second of sampling, then the sample is stored.
MonitorSample(i, k) ==
    /\ monPc[i][k] = "sample"
    /\ \E cpu \in Samples :
        sys_stats' = [sys_stats EXCEPT ![i] = cpu]
    /\ monPc' = [monPc EXCEPT ![i][k] = "check"]
    /\ UNCHANGED outcomes
    /\ UNCHANGED <<files, cfgVars, ncalls, stop_monitoring, pc, video_path,
                   compressVars, video_base64, apiVars, result, exc,
                   ingressVars>>

\* ------------------------------------------- analyze_video, src/main.py

\* os.path.exists(temp_path) and os.remove(temp_path), lines 54-55 and 78-79
RemoveUpload(fs, i) ==
    IF Exists(fs, UploadPath(i)) THEN Remove(fs, UploadPath(i)) ELSE fs

Respond(i, r) ==
    /\ http' = [http EXCEPT ![i] = Some(r)]
    /\ hpc' = [hpc EXCEPT ![i] = "done"]

\* Lines 36-43: the upload is written to temp_path.  open() may raise, before
\* any file is there; copyfileobj may raise, after open() has created it;
\* either way the handler raises HTTPException at line 43.
SaveUpload(i) ==
    /\ hpc[i] = "start"
    /\ \/ /\ Respond(i, Response(500, <<"File upload failed: ", "Permission denied">>))
          /\ UNCHANGED files
       \/ /\ files' = Put(files, UploadPath(i), PartialUpload)
          /\ Respond(i, Response(500, <<"File upload failed: ",
                                        "No space left on device">>))
       \/ /\ \E d \in SourceDurations :
                files' = Put(files, UploadPath(i), SourceFile(d))
          /\ hpc' = [hpc EXCEPT ![i] = "construct"]
          /\ UNCHANGED http
    /\ UNCHANGED <<cfgVars, ncalls, stop_monitoring, sys_stats, pc, video_path,
                   compressVars, video_base64, apiVars, result, exc, outcomes,
                   monPc, supabase, analyses>>

\* Line 50, and lines 77-80 when __init__ raises for want of ZAI_API_KEY.
Construct(i) ==
    /\ hpc[i] = "construct"
    /\ \/ /\ hpc' = [hpc EXCEPT ![i] = "analyze"]
          /\ UNCHANGED <<files, http>>
       \/ /\ files' = RemoveUpload(files, i)
          /\ Respond(i, Response(500,
                  <<"ZAI_API_KEY not found in environment variables">>))
    /\ UNCHANGED <<cfgVars, ncalls, stop_monitoring, sys_stats, pc, video_path,
                   compressVars, video_base64, apiVars, result, exc, outcomes,
                   monPc, supabase, analyses>>

\* Lines 51-80, once analyze_game has returned or raised.  The upload is
\* removed on either way.  On success the global supabase is read: a name
\* never bound raises NameError, which line 77 catches; a client inserts the
\* row, and its exception is swallowed (lines 68-71).  The HTTPException of
\* line 75 is raised inside the try and caught at line 77 as well.
Answer(i) ==
    /\ hpc[i] = "analyze"
    /\ ncalls[i] = todo[i]
    /\ pc[i] \in {"returned", "raised"}
    /\ files' = RemoveUpload(files, i)
    /\ IF pc[i] = "raised"
         THEN /\ Respond(i, Response(500, <<exc[i]>>))
              /\ UNCHANGED analyses
         ELSE IF Val(result[i]).status = "success"
         THEN IF supabase = "unbound"
                THEN /\ Respond(i, Response(500,
                            <<"name 'supabase' is not defined">>))
                     /\ UNCHANGED analyses
                ELSE /\ \E inserted \in BOOLEAN :
                          analyses' = IF inserted
                                        THEN Append(analyses, Val(result[i]).analysis)
                                        ELSE analyses
                     /\ Respond(i, Response(200, Val(result[i])))
         ELSE /\ Respond(i, Response(500,
                      StrOfHTTPException(500, Val(result[i]).error)))
              /\ UNCHANGED analyses
    /\ UNCHANGED <<cfgVars, ncalls, stop_monitoring, sys_stats, pc, video_path,
                   compressVars, video_base64, apiVars, result, exc, outcomes,
                   monPc, supabase>>

\* --------------------------------------- the bitrate formula on its own

\* Line 72 applied to one size budget and one duration.
ComputeBitrate ==
    /\ calc.bitrate = Nil
    /\ calc.duration > 0
    /\ calc' = [calc EXCEPT !.bitrate = Some(Bitrate(calc.half_mb, calc.duration))]
    /\ UNCHANGED <<files, max_size_mb, max_retries, todo, backoff, ncalls,
                   stop_monitoring, sys_stats, pc, video_path, compressVars,
                   video_base64, apiVars, result, exc, outcomes,
                   monPc, ingressVars>>

InitBitrate ==
    /\ files = (<<"a.mp4">> :> SourceFile(840))
    /\ max_size_mb = DefaultSizeHalfMb
    /\ max_retries = DefaultMaxRetries
    /\ todo = [i \in Callers |-> 0]
    /\ InitAnalyzers
    /\ InitCalls
    /\ calc \in [half_mb : 1..MaxSizeHalfMb, duration : 1..MaxDuration,
                  bitrate : {Nil}]
    /\ backoff = NoBackoff
    /\ NoIngress

SpecBitrate == InitBitrate /\ [][ComputeBitrate]_vars

\* ----------------------------------- the retry delay formula on its own

\* Lines 50-56 applied to one attempt index under one draw of random.random().
ComputeDelay ==
    /\ backoff.delay = Nil
    /\ backoff' = [backoff EXCEPT !.delay =
                        Some(calculate_retry_delay(backoff.attempt, backoff.draw))]
    /\ UNCHANGED <<files, max_size_mb, max_retries, todo, calc, ncalls,
                   stop_monitoring, sys_stats, pc, video_path, compressVars,
                   video_base64, apiVars, result, exc, outcomes,
                   monPc, ingressVars>>

InitDelay ==
    /\ files = (<<"a.mp4">> :> SourceFile(840))
    /\ max_size_mb = DefaultSizeHalfMb
    /\ max_retries = DefaultMaxRetries
    /\ todo = [i \in Callers |-> 0]
    /\ InitAnalyzers
    /\ InitCalls
    /\ calc = NoCalc
    /\ backoff \in [attempt : 0..MaxAttemptIndex, draw : 0..(JitterSteps - 1),
                     delay : {Nil}]
    /\ NoIngress

SpecDelay == InitDelay /\ [][ComputeDelay]_vars

\* ----------------------------------------------------- the specifications

\* Every caller makes one call, each on its own analyzer (src/main.py line
\* 50 makes one per request), side by side; both source files exist.  The
\* retry policy is the empty range or one retry after the first attempt.
InitConcurrent ==
    /\ files = (<<"a.mp4">> :> SourceFile(840)) @@ (<<"b.mp4">> :> SourceFile(60))
    /\ max_size_mb = DefaultSizeHalfMb
    /\ max_retries \in {0, DefaultMaxRetries + 1}
    /\ todo = [i \in Callers |-> 1]
    /\ InitAnalyzers
    /\ InitCalls
    /\ calc = NoCalc
    /\ backoff = NoBackoff
    /\ NoIngress

Next ==
    \E i \in Callers :
        \/ Analyze(i)
        \/ ProbeFails(i)
        \/ ProbeOk(i)
        \/ PopenRaises(i)
        \/ PopenOk(i)
        \/ DrainRaises(i)
        \/ TranscoderExit(i)
        \/ CompressFinish(i)
        \/ EncodeFails(i)
        \/ EncodeOk(i)
        \/ ApiReturns(i)
        \/ ApiRaises(i)
        \/ Sleep(i)
        \/ ApiLoopEnd(i)
        \/ Cleanup(i)
        \/ \E k \in CallNumbers : MonitorCheck(i, k)
        \/ \E k \in CallNumbers : MonitorSample(i, k)

Spec == Init /\ [][Next]_vars

SpecConcurrent == InitConcurrent /\ [][Next]_vars

\* One request to /analyze: lines 17-20 have bound supabase to a client or
\* left it unbound, and the analyzer the handler makes is as __init__ sets
\* it.  The disk holds nothing of the request yet.
InitIngress ==
    /\ files = (<<"a.mp4">> :> SourceFile(840))
    /\ max_size_mb = DefaultSizeHalfMb
    /\ max_retries = DefaultMaxRetries
    /\ todo = [i \in Callers |-> IF i = 1 THEN 1 ELSE 0]
    /\ InitAnalyzers
    /\ InitCalls
    /\ calc = NoCalc
    /\ backoff = NoBackoff
    /\ hpc = [i \in Callers |-> IF i = 1 THEN "start" ELSE "none"]
    /\ http = [i \in Callers |-> Nil]
    /\ supabase \in {"unbound", "client"}
    /\ analyses = <<>>

\* The handler's steps and those of the call it makes; with max_retries = 1
\* the retry loop neither sleeps nor runs out.
NextIngress ==
    \E i \in Callers :
        \/ SaveUpload(i)
        \/ Construct(i)
        \/ Answer(i)
        \/ Analyze(i)
        \/ ProbeFails(i)
        \/ ProbeOk(i)
        \/ PopenRaises(i)
        \/ PopenOk(i)
        \/ DrainRaises(i)
        \/ TranscoderExit(i)
        \/ CompressFinish(i)
        \/ EncodeFails(i)
        \/ EncodeOk(i)
        \/ ApiReturns(i)
        \/ ApiRaises(i)
        \/ Cleanup(i)
        \/ \E k \in CallNumbers : MonitorCheck(i, k)
        \/ \E k \in CallNumbers : MonitorSample(i, k)

SpecIngress == InitIngress /\ [][NextIngress]_vars

\* A step of a call of analyze_game that has begun.
PipelineStep(i) ==
    \/ ProbeFails(i)
    \/ ProbeOk(i)
    \/ PopenRaises(i)
    \/ PopenOk(i)
    \/ DrainRaises(i)
    \/ TranscoderExit(i)
    \/ CompressFinish(i)
    \/ EncodeFails(i)
    \/ EncodeOk(i)
    \/ ApiReturns(i)
    \/ ApiRaises(i)
    \/ Sleep(i)
    \/ ApiLoopEnd(i)
    \/ Cleanup(i)

\* The calling thread keeps running: the probe returns, the transcoder
\* exits, a transport call returns or raises, a sleep ends.  Nothing is
\* assumed of the callers' next calls nor of the monitor threads.
SpecFair == Spec /\ \A i \in Callers : WF_vars(PipelineStep(i))

\* ---------------------------------------------------------------- claims

InCompress == {"probe", "popen", "drain", "wait"}
Returns(i) == pc[i] # "returned" /\ pc'[i] = "returned"

\* C1: when analyze_game returns, Success or Failed, the compressed artifact
\* at the path derived for that invocation is not on disk.
C1_ArtifactGoneOnReturn ==
    [][\A i \in Callers :
          Returns(i) => ~Exists(files', TempVideo(video_path'[i]))]_vars

\* C2: analyze_game always ends by returning a result of the shape
\* Success{report} or Failed{message}; no stage's failure escapes it as an
\* exception.
C2_AlwaysReturnsResult ==
    \A i \in Callers :
        /\ pc[i] # "raised"
        /\ pc[i] = "returned" =>
              /\ result[i] # Nil
              /\ Val(result[i]).status \in {"success", "failed"}

\* C3: under a policy of N >= 1 attempts, a transport that raises on every
\* attempt is called exactly N times with exactly N-1 sleeps, none after the
\* last failure, and the call returns Failure carrying the N-th error's
\* message and attempts = N.
C3_AllAttemptsFail ==
    \A i \in Callers :
        (max_retries >= 1 /\ Len(raised[i]) = calls[i]) =>
            /\ calls[i] <= max_retries
            /\ calls[i] = max_retries =>
                  /\ api_result[i] =
                        Some(CallFailure(raised[i][max_retries], max_retries))
                  /\ sleeps[i] = max_retries - 1
                  /\ pc[i] \in {"cleanup", "returned"}
            /\ calls[i] < max_retries =>
                  /\ api_result[i] = Nil
                  /\ sleeps[i] \in {calls[i] - 1, calls[i]}

C3_Witness ==
    \E i \in Callers :
        /\ max_retries >= 2
        /\ Len(raised[i]) = max_retries
        /\ raised[i][1] # raised[i][max_retries]
        /\ pc[i] = "returned"

\* C4: under a 3-attempt policy, a first transport call that returns makes
\* that one call only, records attempts = 1 and never sleeps.
C4_FirstAttemptSucceeds ==
    \A i \in Callers :
        (max_retries = 3 /\ calls[i] >= 1 /\ raised[i] = <<>>) =>
            /\ calls[i] = 1
            /\ sleeps[i] = 0
            /\ api_result[i] # Nil
            /\ Val(api_result[i]).success
            /\ Val(api_result[i]).attempts = 1
            /\ pc[i] \in {"cleanup", "returned", "raised"}

C4_Witness ==
    \E i \in Callers :
        /\ max_retries = 3
        /\ calls[i] = 1
        /\ raised[i] = <<>>
        /\ pc[i] = "returned"

\* C5: called on a source path that does not exist, analyze_game returns
\* Failed with a message ending in "not found", and neither the probe, the
\* transcoder, the monitor nor the transport is invoked, and no artifact is
\* created.
C5_MissingSource ==
    \A i \in Callers :
        (pc[i] # "idle" /\ ~Exists(files, video_path[i])) =>
            /\ pc[i] = "returned"
            /\ Val(result[i]).status = "failed"
            /\ Val(result[i]).error = video_path[i] \o <<" not found">>
            /\ bitrate[i] = Nil
            /\ returncode[i] = Nil
            /\ monPc[i][ncalls[i]] = "none"
            /\ calls[i] = 0
            /\ ~Exists(files, TempVideo(video_path[i]))

C5_Witness ==
    \E i \in Callers :
        /\ pc[i] = "returned"
        /\ ~Exists(files, video_path[i])
        /\ Val(result[i]).error[Len(Val(result[i]).error)] = " not found"

\* C6: when the transcoder exits with a non-zero code, analyze_game returns
\* Failed("Compression failed") and makes no transport call.
C6_TranscoderFails ==
    \A i \in Callers :
        (returncode[i] # Nil /\ Val(returncode[i]) # 0) =>
            /\ calls[i] = 0
            /\ pc[i] \in {"wait", "returned"}
            /\ pc[i] = "returned" =>
                  result[i] = Some(Failed(<<"Compression failed">>))

C6_Witness ==
    \E i \in Callers :
        /\ returncode[i] = Some(1)
        /\ Exists(files, TempVideo(video_path[i]))
        /\ pc[i] = "returned"

\* C7: on every path out of compress_video after the monitor thread was
\* started, the stop signal has been set when compress_video ends.
C7_MonitorStoppedWhenCompressEnds ==
    [][\A i \in Callers :
          (pc[i] \in InCompress /\ pc'[i] \notin InCompress /\ monPc[i][ncalls[i]] # "none")
              => stop_monitoring'[i]]_vars

\* C8: in every interleaving of two invocations, the same source path
\* included, no invocation reads, deletes or overwrites the artifact of
\* another, and none fails as it could not fail running alone (reading an
\* artifact that compress_video has just found in place).
C8_InvocationsIndependent ==
    [][\A i \in Callers :
          LET temp == TempVideo(video_path[i]) IN
          /\ (pc[i] = "encode" /\ pc'[i] = "api")
                => files[temp].writer = i
          /\ (pc[i] = "cleanup" /\ pc'[i] # "cleanup" /\ Exists(files, temp))
                => files[temp].writer = i
          /\ (pc[i] = "drain" /\ pc'[i] = "wait" /\ Exists(files, temp)
                /\ files' # files)
                => files[temp].writer = i
          /\ (pc[i] = "encode" /\ pc'[i] = "returned")
                => Exists(files, temp)]_vars

BudgetBits(half_mb) == half_mb * 4 * 1024 * 1024

\* C9: for every positive duration and size budget, the computed bitrate
\* times the duration does not exceed max_artifact_size_mb * 8 * 1024 * 1024
\* bits and falls short of it by less than `duration` bits.
C9_BitrateWithinBudget ==
    calc.bitrate # Nil =>
        /\ Val(calc.bitrate) * calc.duration <= BudgetBits(calc.half_mb)
        /\ BudgetBits(calc.half_mb) - Val(calc.bitrate) * calc.duration
              < calc.duration

C9_Witness ==
    /\ calc.bitrate # Nil
    /\ calc.half_mb = DefaultSizeHalfMb
    /\ Val(calc.bitrate) * calc.duration < BudgetBits(calc.half_mb)

Transcoding840(i) ==
    /\ bitrate[i] # Nil
    /\ files[video_path[i]].duration = 840
    /\ max_size_mb = DefaultSizeHalfMb

\* C10, as the spec states it: for max_artifact_size_mb = 9.5 and a probed
\* duration of 840 seconds, the bitrate passed to the transcoder is 75,828
\* bps, up to rounding.
C10_Bitrate75828 ==
    \A i \in Callers :
        Transcoding840(i) => Val(bitrate[i]) \in 75827..75829

\* C10, amended: for max_artifact_size_mb = 9.5 and a probed duration of 840
\* seconds, the bitrate passed to the transcoder is 94,871 bps.
C10_Bitrate94871 ==
    \A i \in Callers :
        Transcoding840(i) => Val(bitrate[i]) = 94871

C10_Witness ==
    \E i \in Callers : Transcoding840(i) /\ pc[i] = "drain"

\* C11: for every attempt index n >= 0 and every jitter draw, the retry delay
\* lies within the jitter fraction (20%) of min(base * 2^n, max_delay), so it
\* is never negative and never above max_delay * (1 + jitter fraction).
C11_RetryDelayBounded ==
    backoff.delay # Nil =>
        LET n == backoff.attempt
            nominal == Min(base_retry_delay * (2 ^ n), max_retry_delay) * DelayUnits
            delay == Val(backoff.delay)
        IN /\ (delay - nominal) * 100 <= nominal * JitterPercent
           /\ (nominal - delay) * 100 <= nominal * JitterPercent
           /\ 0 <= delay
           /\ delay * 100 <= max_retry_delay * DelayUnits * (100 + JitterPercent)

\* The cap is in force (5 * 2^5 = 160 > 120) and the draw is the lowest: the
\* delay is 120 s less 20%, 96 s.
C11_Witness ==
    /\ backoff.attempt = 5
    /\ backoff.draw = 0
    /\ backoff.delay = Some(96 * DelayUnits)

\* C12: once the /analyze handler has finished, by returning a response or
\* by raising an HTTP error, the temporary upload file it created is no
\* longer on disk, whatever failed on the way.
C12_UploadGoneWhenHandlerDone ==
    \A i \in Callers :
        hpc[i] = "done" => ~Exists(files, UploadPath(i))

\* C13: whenever analyze_game returned success inside the handler, the
\* handler answers 200 with the result, whether the record store is not
\* configured, the insert succeeds or the insert raises.
C13_SuccessAnswered200 ==
    \A i \in Callers :
        (hpc[i] = "done" /\ pc[i] = "returned"
            /\ Val(result[i]).status = "success") =>
                /\ Val(http[i]).status_code = 200
                /\ Val(http[i]).content = Val(result[i])

\* C14: under a policy of N >= 1 attempts and for 1 <= k <= N, a transport
\* that raises on attempts 1..k-1 and returns on attempt k makes the call
\* manager return Success with attempts = k after exactly k transport calls
\* and exactly k-1 sleeps; no transport call or sleep follows.
C14_SucceedsOnAttemptK ==
    \A i \in Callers :
        (max_retries >= 1 /\ calls[i] = Len(raised[i]) + 1) =>
            LET k == Len(raised[i]) + 1 IN
            /\ k <= max_retries
            /\ api_result[i] # Nil
            /\ Val(api_result[i]).success
            /\ Val(api_result[i]).attempts = k
            /\ sleeps[i] = k - 1
            /\ pc[i] \in {"cleanup", "returned", "raised"}

\* The transport raised twice, with different messages, and returned on the
\* third and last attempt.
C14_Witness ==
    \E i \in Callers :
        /\ max_retries = 3
        /\ Len(raised[i]) = 2
        /\ raised[i][1] # raised[i][2]
        /\ calls[i] = 3
        /\ pc[i] = "returned"
        /\ Val(result[i]).status = "success"

\* C15: when compress_video returned the artifact but reading and encoding
\* it fails, analyze_game returns Failed with the message "Encoding failed: "
\* followed by the error's detail, and makes no transport call.
C15_EncodingFails ==
    \A i \in Callers :
        (pc[i] # "encode" /\ ready_video[i] # NoPath /\ video_base64[i] = Nil) =>
            /\ pc[i] = "returned"
            /\ Val(result[i]).status = "failed"
            /\ Len(Val(result[i]).error) = 2
            /\ Val(result[i]).error[1] = "Encoding failed: "
            /\ Val(result[i]).error[2] \in
                    {"Input/output error", "No such file or directory"}
            /\ calls[i] = 0
            /\ sleeps[i] = 0
            /\ api_result[i] = Nil

C15_Witness ==
    \E i \in Callers :
        /\ pc[i] = "returned"
        /\ returncode[i] = Some(0)
        /\ ready_video[i] = TempVideo(video_path[i])
        /\ result[i] = Some(Failed(<<"Encoding failed: ", "Input/output error">>))
        /\ calls[i] = 0

C17_AnalyzeTerminates ==
    \A i \in Callers :
        [](pc[i] \notin {"idle", "returned", "raised"}
              => <>(pc[i] \in {"returned", "raised"}))

\* The last call of a caller has finished after the longest retry loop:
\* every attempt of the largest budget was made, with a sleep between each.
C17_Witness ==
    \E i \in Callers :
        /\ ncalls[i] = MaxCalls
        /\ pc[i] = "returned"
        /\ max_retries = MaxAttempts
        /\ calls[i] = MaxAttempts
        /\ sleeps[i] = MaxAttempts - 1

\* What a finished call shows: how it ended, what it returned or raised, the
\* transport calls and sleeps it made, and whether its artifact is on disk.
Outcome(end, res, e, ncall, nsleep, left) ==
    [end |-> end, result |-> res, exc |-> e, calls |-> ncall,
     sleeps |-> nsleep, artifact |-> left]

Observed(i) ==
    Outcome(pc[i], result[i], exc[i], calls[i], sleeps[i],
            Exists(files, TempVideo(video_path[i])))

\* The outcome of the inference stage as a function of what the transport
\* did on each attempt, t, under a budget of n attempts.
ExpectedOfTransport(t, n) ==
    IF t = <<>>
      THEN Outcome("returned", Some(Failed(<<"Unknown error">>)), "none", 0, 0, FALSE)
      ELSE LET last == t[Len(t)] IN
           IF last[1] = "raised"
             THEN Outcome("returned", Some(Failed(<<last[2]>>)), "none",
                          Len(t), Len(t) - 1, FALSE)
           ELSE IF Len(last) = 1
             THEN Outcome("raised", Nil, "IndexError", Len(t), Len(t) - 1, FALSE)
             ELSE Outcome("returned", Some(Success(last[2])), "none",
                          Len(t), Len(t) - 1, FALSE)

\* The n-th entry of a call's record, if it got that far.
At(o, n) == IF n <= Len(o) THEN o[n] ELSE <<"none", "none", "none">>

\* The outcome of a finished call as a function of its argument, of what it
\* found on disk and of what the probe, the transcoder, the artifact read
\* and the transport did (o), and of nothing else.
Expected(p, o, n) ==
    LET stale == At(o, 1)[3] = "artifact"
        CompressionFailed(left) ==
            Outcome("returned", Some(Failed(<<"Compression failed">>)), "none",
                    0, 0, left)
    IN
    IF At(o, 1)[2] = "no source"
      THEN Outcome("returned", Some(Failed(p \o <<" not found">>)), "none",
                   0, 0, stale)
    ELSE IF At(o, 2) = <<"probe", "failed">> THEN CompressionFailed(stale)
    ELSE IF At(o, 2) = <<"probe", "zero">>
      THEN Outcome("raised", Nil, "ZeroDivisionError", 0, 0, stale)
    ELSE IF At(o, 3) = <<"popen", "raised">>
      THEN Outcome("raised", Nil, "OSError", 0, 0, stale)
    ELSE IF At(o, 4) = <<"drain", "raised">>
      THEN Outcome("raised", Nil, "UnicodeDecodeError", 0, 0, stale)
    ELSE LET present == stale \/ At(o, 4)[3] = "output" IN
         IF At(o, 4)[2] # "0" \/ ~present THEN CompressionFailed(present)
         ELSE IF At(o, 5)[2] = "failed"
           THEN Outcome("returned", Some(Failed(<<"Encoding failed: ", At(o, 5)[3]>>)),
                        "none", 0, 0, TRUE)
           ELSE ExpectedOfTransport(SubSeq(o, 6, Len(o)), n)

\* C18: the monitor is purely observational: the result of analyze_game, its
\* transport calls and sleeps and the cleanup of its artifact are a function
\* of the outcomes of the probe, the transcoder, the artifact read and the
\* transport alone, the same for every interleaving of the monitor threads'
\* steps and every sample they write.
C18_MonitorObservational ==
    \A i \in Callers :
        pc[i] \in {"returned", "raised"} =>
            Observed(i) = Expected(video_path[i], outcomes[i], max_retries)

\* A call has succeeded on its second attempt while two monitor threads were
\* running, the one of the call before among them, and a sample was written.
C18_Witness ==
    \E i \in Callers :
        /\ pc[i] = "returned"
        /\ Val(result[i]).status = "success"
        /\ sleeps[i] = 1
        /\ ncalls[i] = 2
        /\ monPc[i][1] = "sample"
        /\ monPc[i][2] = "check"
        /\ sys_stats[i] = 50

\* C19: over sequential calls on one analyzer, when a later compress_video
\* resets stop_monitoring to False after an earlier one had set it, every
\* monitor thread started by an earlier call has already exited, so none of
\* them is kept running and at most one monitor is alive per transcoder.
C19_EarlierMonitorsExitedAtReset ==
    [][\A i \in Callers :
        (stop_monitoring[i] /\ ~stop_monitoring'[i]) =>
            \A k \in CallNumbers : monPc[i][k] \in {"none", "exited"}
      ]_vars

\* C20: with max_retries = 1, as __init__ sets it, a call of analyze_game
\* that reaches the inference stage makes exactly one transport call and
\* never sleeps; one transport exception yields Failed carrying that
\* exception's message, with no second attempt.
C20_SingleAttemptAsConstructed ==
    \A i \in Callers :
        max_retries = DefaultMaxRetries =>
            /\ calls[i] <= 1
            /\ sleeps[i] = 0
            /\ pc[i] # "sleep"
            /\ (video_base64[i] # Nil /\ pc[i] # "api") => calls[i] = 1
            /\ raised[i] # <<>> =>
                  /\ api_result[i] = Some(CallFailure(raised[i][1], 1))
                  /\ pc[i] \in {"cleanup", "returned"}
                  /\ pc[i] = "returned" =>
                        result[i] = Some(Failed(<<raised[i][1]>>))

C20_Witness ==
    \E i \in Callers :
        /\ max_retries = DefaultMaxRetries
        /\ raised[i] = <<"rate limited">>
        /\ calls[i] = 1
        /\ result[i] = Some(Failed(<<"rate limited">>))
        /\ pc[i] = "returned"

====
